---- MODULE Spec2Model ----
(***************************************************************************)
(* Model of the DOM identifier pipeline of r6d9-agent-node:                *)
(*   dom/utils/element-utils.ts   isElementInteractive                     *)
(*   dom/utils/element.ts         injectMmidAttributes, cleanupMmid...     *)
(*   dom/config/ignore.ts         IGNORE_CONFIG                            *)
(*   dom/services/dom-info.ts     getDomInfo and its private injector      *)
(*   dom/services/dom-field.ts    getDomFields                             *)
(* The live document is a sequence of elements in document order (what     *)
(* getElementsByTagName('*') and querySelectorAll('*') enumerate).         *)
(* An attribute is <<>> when absent and <<v>> when present; attribute      *)
(* values written by String(n) are sequences of characters.                *)
(***************************************************************************)
EXTENDS Integers, Sequences, FiniteSets, TLC

\* ------------------------------------------------------------------ bounds
MaxInit == 2        \* elements under <body> when the page is loaded
MaxInserts == 1     \* elements the page inserts afterwards
MaxCleanups == 1    \* cleanup calls within one page lifetime

\* --------------------------------------------------------------- constants
TAGS_TO_IGNORE ==
  {"head", "style", "script", "link", "meta", "noscript", "template",
   "iframe", "g", "main", "c-wiz", "path", "html"}

IDS_TO_IGNORE == {"agentDriveAutoOverlay"}

\* the debug border the injector writes
DebugBorder == "2px solid #3498db"

InteractiveInputTypes ==
  {"text", "password", "number", "email", "tel", "url", "search", "date",
   "time", "datetime-local", "month", "week", "checkbox", "radio", "file",
   "submit", "reset", "button"}

InteractiveRoles ==
  {"button", "link", "checkbox", "radio", "textbox", "combobox", "listbox",
   "switch", "slider", "spinbutton", "menuitem", "option"}

interactiveEvents ==
  {"click", "mousedown", "mouseup", "touchstart", "touchend", "keydown",
   "keyup"}

InteractiveCursors == {"pointer", "cursor", "grab", "grabbing"}

\* ------------------------------------------------- String(n) and unary plus
DigitChars == <<"0", "1", "2", "3", "4", "5", "6", "7", "8", "9">>

RECURSIVE NatToString(_)
NatToString(n) ==
  IF n < 10 THEN <<DigitChars[n + 1]>>
  ELSE NatToString(n \div 10) \o <<DigitChars[(n % 10) + 1]>>

\* String(n) / n.toString(): the decimal text of an integer
String(n) == IF n < 0 THEN <<"-">> \o NatToString(-n) ELSE NatToString(n)

DigitVal(c) == CHOOSE d \in 0..9 : DigitChars[d + 1] = c

RECURSIVE DigitsToNat(_)
DigitsToNat(s) ==
  IF Len(s) = 1 THEN DigitVal(s[1])
  ELSE 10 * DigitsToNat(SubSeq(s, 1, Len(s) - 1)) + DigitVal(s[Len(s)])

\* +text: the number a decimal text denotes
Number(s) == IF s[1] = "-" THEN 0 - DigitsToNat(Tail(s)) ELSE DigitsToNat(s)

\* ------------------------------------------------------------ the elements
\* One element of the live document.  eid is the element's identity (the
\* object itself); everything else is what the code reads or writes.
\* on is the set of events with an inline on<event> attribute; throws marks
\* an element on which a property read inside isElementInteractive raises
\* (a <form> whose control is named "type", a failing getComputedStyle);
\* attrThrows marks an element on which getElementInfo raises; value is the
\* control's value and options the <option>s of a <select>.
Base ==
  [eid |-> 0, tag |-> "div", id |-> "", type |-> "", role |-> "",
   tabindex |-> <<>>, on |-> {}, cursor |-> "auto", className |-> "",
   hasSvg |-> FALSE, throws |-> FALSE, outline |-> "", border |-> "",
   mmid |-> <<>>, origBorder |-> <<>>,
   attrThrows |-> FALSE, value |-> <<>>, options |-> <<>>,
   placeholder |-> <<>>, required |-> FALSE, disabled |-> FALSE,
   readonly |-> FALSE, htmlFor |-> "", text |-> <<>>,
   typeAttr |-> <<>>, ariaPressed |-> <<>>, ariaExpanded |-> <<>>,
   ariaHaspopup |-> <<>>, ariaControls |-> <<>>, ariaLabel |-> <<>>,
   title |-> <<>>]

HtmlElem == [Base EXCEPT !.tag = "html"]
BodyElem == [Base EXCEPT !.tag = "body"]

\* The elements a page is built from: a button, a styled text input, a
\* decorative div, an ignored tag and an ignored id that isElementInteractive
\* would accept, and a form on which the classifier raises.
Button == [Base EXCEPT !.tag = "button", !.id = "b", !.type = "submit"]
TextInput ==
  [Base EXCEPT !.tag = "input", !.type = "text", !.cursor = "text",
               !.outline = "1px dotted blue", !.border = "1px solid red"]
Div ==
  [Base EXCEPT !.tabindex = <<"-1">>, !.className = "menu-trigger",
               !.border = "1px solid red"]
Iframe == [Base EXCEPT !.tag = "iframe", !.tabindex = <<"0">>]
Overlay ==
  [Base EXCEPT !.id = "agentDriveAutoOverlay", !.on = {"click"},
               !.cursor = "pointer"]
Form == [Base EXCEPT !.tag = "form", !.throws = TRUE]

Kinds == {Button, TextInput, Div, Iframe, Overlay, Form}

\* the elements the page's scripts insert later
InsertKinds == {Button, Div}

\* ---------------------------------------------------- isElementInteractive
\* the classifier with the tabindex test reduced to hasAttribute
isElementInteractiveAnyTabindex(element) ==
  LET tagName == element.tag
      type == element.type
      role == element.role
  IN  IF tagName \in {"a", "button", "select", "textarea"} THEN TRUE
      ELSE IF tagName = "input" /\ type \in InteractiveInputTypes THEN TRUE
      ELSE IF role = "WebArea" THEN TRUE
      ELSE IF role \in InteractiveRoles THEN TRUE
      ELSE IF element.tabindex # <<>> THEN TRUE
      ELSE IF \E event \in interactiveEvents : event \in element.on THEN TRUE
      ELSE IF element.cursor \in InteractiveCursors THEN TRUE
      ELSE FALSE

isElementInteractive(element) ==
  LET tagName == element.tag
      type == element.type
      role == element.role
  IN  IF tagName \in {"a", "button", "select", "textarea"} THEN TRUE
      ELSE IF tagName = "input" /\ type \in InteractiveInputTypes THEN TRUE
      ELSE IF role = "WebArea" THEN TRUE
      ELSE IF role \in InteractiveRoles THEN TRUE
      ELSE IF element.tabindex # <<>> /\ element.tabindex # <<"-1">> THEN TRUE
      ELSE IF \E event \in interactiveEvents : event \in element.on THEN TRUE
      ELSE IF element.cursor \in InteractiveCursors THEN TRUE
      ELSE FALSE

\* ---------------------------------------------------------------- the state
VARIABLES
  doc,        \* the live document: its elements in document order
  lastMmid,   \* the last-mmid attribute of document.body
  op,         \* the operation that ran last
  streak,     \* 1 after an injection, 3 after two or more injections in
              \* a row, 2 after injections and then a cleanup, 0 otherwise
  saved,      \* <<style>>: the inline styles before the injections that
              \* streak counts, element by element; <<>> when streak = 0
  ret,        \* <<id>>: the counter the last operation, an injection,
              \* returned from the page; <<>> otherwise
  threw,      \* the last operation raised an error
  tree,       \* <<node>>: the DOMNode the last operation, getDomInfo, returned
  fields,     \* <<dict>>: what the last operation, getDomFields, returned
  assigned,   \* every <<eid, identifier>> pair that was ever assigned
  newIds,     \* the identifiers the last operation assigned, document order
  startId,    \* the counter the last injection pass started from
  cleanups,   \* cleanup calls so far
  inserts,    \* elements inserted so far
  fault,      \* where the page handle failed in the last operation
  arg,        \* <<input>>: the input of the function applied last
  out,        \* <<result>>: what it returned
  orch,       \* the orchestrator workflow: its channels and the node to run
  manager,    \* the BrowserManager singleton and the calls in flight
  agent       \* a controller returned by run(): its flags and its loops

vars == <<doc, lastMmid, op, streak, saved, ret, threw, tree, fields, assigned,
          newIds, startId, cleanups, inserts, fault, arg, out,
         orch, manager, agent>>

\* a JavaScript string attribute is truthy when present and non-empty
\* (Truthy: a text kept as characters; TruthyStr: a text kept as a string)
Truthy(attr) == attr # <<>> /\ attr[1] # <<>>
TruthyStr(attr) == attr # <<>> /\ attr[1] # ""

\* shouldIgnoreElement: the Ignore Configuration
shouldIgnoreElement(element) ==
  element.tag \in TAGS_TO_IGNORE \/ element.id \in IDS_TO_IGNORE

\* ------------------------------------ injectMmidAttributes (utils/element)
\* The for-loop over Array.from(document.getElementsByTagName('*')), from
\* element i on, with the counter at id.  The loop has no try/catch: when
\* isElementInteractive raises, the pass ends there and threw is TRUE.
\* the loop with an injector that renumbers: String(++id) for every
\* eligible element, also one that carries an identifier
RECURSIVE injectLoopRenumber(_, _, _)
injectLoopRenumber(d, i, id) ==
  IF i > Len(d) THEN [doc |-> d, id |-> id, threw |-> FALSE]
  ELSE
    LET element == d[i] IN
    IF element.tag \in TAGS_TO_IGNORE \/ element.id \in IDS_TO_IGNORE
      THEN injectLoopRenumber(d, i + 1, id)
    ELSE IF element.throws
      THEN [doc |-> d, id |-> id, threw |-> TRUE]
    ELSE IF ~isElementInteractive(element)
      THEN injectLoopRenumber(d, i + 1, id)
    ELSE
      LET origOutline == element.outline
          tagged == [element EXCEPT
                       !.mmid = <<String(id + 1)>>,
                       !.border = DebugBorder,
                       !.origBorder =
                          IF origOutline # "" THEN <<origOutline>> ELSE @]
      IN  injectLoopRenumber([d EXCEPT ![i] = tagged], i + 1, id + 1)

\* the loop with String(id++) in place of String(++id)
RECURSIVE injectLoopPostIncrement(_, _, _)
injectLoopPostIncrement(d, i, id) ==
  IF i > Len(d) THEN [doc |-> d, id |-> id, threw |-> FALSE]
  ELSE
    LET element == d[i] IN
    IF element.tag \in TAGS_TO_IGNORE \/ element.id \in IDS_TO_IGNORE
      THEN injectLoopPostIncrement(d, i + 1, id)
    ELSE IF element.throws
      THEN [doc |-> d, id |-> id, threw |-> TRUE]
    ELSE IF ~isElementInteractive(element)
      THEN injectLoopPostIncrement(d, i + 1, id)
    ELSE
      LET fresh == ~Truthy(element.mmid)
          id2 == IF fresh THEN id + 1 ELSE id
          mmid == IF fresh THEN String(id) ELSE element.mmid[1]
          origOutline == element.outline
          tagged == [element EXCEPT
                       !.mmid = <<mmid>>,
                       !.border = DebugBorder,
                       !.origBorder =
                          IF origOutline # "" THEN <<origOutline>> ELSE @]
      IN  injectLoopPostIncrement([d EXCEPT ![i] = tagged], i + 1, id2)

RECURSIVE injectLoop(_, _, _)
injectLoop(d, i, id) ==
  IF i > Len(d) THEN [doc |-> d, id |-> id, threw |-> FALSE]
  ELSE
    LET element == d[i] IN
    IF element.tag \in TAGS_TO_IGNORE \/ element.id \in IDS_TO_IGNORE
      THEN injectLoop(d, i + 1, id)
    ELSE IF element.throws
      THEN [doc |-> d, id |-> id, threw |-> TRUE]
    ELSE IF ~isElementInteractive(element)
      THEN injectLoop(d, i + 1, id)
    ELSE
      LET fresh == ~Truthy(element.mmid)
          id2 == IF fresh THEN id + 1 ELSE id
          mmid == IF fresh THEN String(id2) ELSE element.mmid[1]
          origOutline == element.outline
          tagged == [element EXCEPT
                       !.mmid = <<mmid>>,
                       !.border = DebugBorder,
                       !.origBorder =
                          IF origOutline # "" THEN <<origOutline>> ELSE @]
      IN  injectLoop([d EXCEPT ![i] = tagged], i + 1, id2)

\* let id = +(document.body.getAttribute('last-mmid') ?? -1)
readLastMmid(attr) == IF attr = <<>> THEN -1 ELSE Number(attr[1])

\* --------------------------------- cleanupMmidAttributes (utils/element)
\* a cleanup that selects '*[orig-border]' in place of '*[mmid]'
cleanupElementByBackup(element) ==
  IF element.origBorder = <<>> THEN element
  ELSE
    [element EXCEPT
       !.mmid = <<>>,
       !.outline = "",
       !.border = IF TruthyStr(element.origBorder)
                    THEN element.origBorder[1] ELSE @,
       !.origBorder = IF TruthyStr(element.origBorder) THEN <<>> ELSE @]

\* a cleanup that selects '*' in place of '*[mmid]'
cleanupElementAll(element) ==
  [element EXCEPT
     !.mmid = <<>>,
     !.outline = "",
     !.border = IF TruthyStr(element.origBorder)
                  THEN element.origBorder[1] ELSE @,
     !.origBorder = IF TruthyStr(element.origBorder) THEN <<>> ELSE @]

cleanupElement(element) ==
  IF element.mmid = <<>> THEN element
  ELSE
    LET origBorder == element.origBorder IN
    [element EXCEPT
       !.mmid = <<>>,
       !.outline = "",
       !.border = IF TruthyStr(origBorder) THEN origBorder[1] ELSE @,
       !.origBorder = IF TruthyStr(origBorder) THEN <<>> ELSE @]

\* -------------------------------------- injectMmidAttributes (dom-info)
\* querySelectorAll('*').forEach with a counter that starts at 1
RECURSIVE domInfoInjectLoop(_, _, _)
domInfoInjectLoop(d, i, id) ==
  IF i > Len(d) THEN d
  ELSE IF d[i].mmid = <<>>
    THEN domInfoInjectLoop([d EXCEPT ![i].mmid = <<String(id)>>], i + 1,
                           id + 1)
    ELSE domInfoInjectLoop(d, i + 1, id)

\* ------------------------------------------------- history (ghost) helpers
\* positions whose element had no identifier in d and has one in d2
NewlyTagged(d, d2) ==
  {i \in 1..Len(d) : d[i].mmid = <<>> /\ d2[i].mmid # <<>>}

RECURSIVE IdsFrom(_, _, _)
IdsFrom(d, d2, i) ==
  IF i > Len(d) THEN <<>>
  ELSE IF i \in NewlyTagged(d, d2)
    THEN <<Number(d2[i].mmid[1])>> \o IdsFrom(d, d2, i + 1)
    ELSE IdsFrom(d, d2, i + 1)

\* the inline outline and border of every element
Styles(d) ==
  [i \in 1..Len(d) |-> [outline |-> d[i].outline, border |-> d[i].border]]

Record(d, d2) ==
  /\ assigned' = assigned \cup
                   {<<d2[i].eid, d2[i].mmid[1]>> : i \in NewlyTagged(d, d2)}
  /\ newIds' = IdsFrom(d, d2, 1)

\* ------------------------------------------------------ getDomInfo's tree
\* A DOMNode; every property is <<>> when undefined and <<v>> when set.
NoNode ==
  [role |-> <<>>, tag |-> <<>>, name |-> <<>>, mmid |-> <<>>,
   children |-> <<>>, is_clickable |-> <<>>, tabindex |-> <<>>,
   aria_expanded |-> <<>>, aria_selected |-> <<>>, aria_checked |-> <<>>,
   marked_for_deletion_by_mm |-> <<>>,
   category |-> <<>>]

DocumentTitle == "title"

rootNode ==
  [NoNode EXCEPT !.role = <<"WebArea">>, !.tag = <<"document">>,
                 !.name = <<DocumentTitle>>, !.children = << <<>> >>,
                 !.mmid = << <<"0">> >>]

EmptyNode == [NoNode EXCEPT !.name = <<"Empty node">>]

ErrorNode ==
  [NoNode EXCEPT !.role = <<"WebArea">>, !.name = <<"Error getting DOM info">>]

\* className.toLowerCase().includes(sub), on the class names of Kinds
ClassIncludes(className, sub) ==
  <<className, sub>> \in {<<"menu-trigger", "trigger">>,
                          <<"clickable-row", "clickable">>}

\* the is_clickable flag getElementInfo computes
isClickableAttr(element) ==
  \/ "click" \in element.on
  \/ element.cursor = "pointer"
  \/ element.role = "button"
  \/ element.tabindex # <<>>
  \/ ClassIncludes(element.className, "trigger")
  \/ ClassIncludes(element.className, "clickable")
  \/ element.hasSvg
  \/ element.tag = "button"
  \/ element.tag = "a"
  \/ element.role = "link"
  \/ element.role = "tab"

\* new RegExp(`\\b${pattern}\\b`).test(classNames) for the class names of
\* the model
HasWord(className, pattern) ==
  <<className, pattern>> \in {<<"btn primary", "btn">>,
                              <<"icon button", "button">>}

\* isButtonLike(element, role); role is attrs.role, the role attribute.
\* Of the computed styles only the cursor is a feature of the elements; the
\* border shorthand of the last test of step 5 is read from the element.
isButtonLike(element) ==
  LET onclick == "click" \in element.on
      pointer == element.cursor = "pointer"
      hasStrongAriaButton ==
        \/ element.ariaPressed # <<>>
        \/ element.ariaExpanded # <<>> /\ element.ariaControls # <<>>
        \/ element.ariaHaspopup = <<"true">> /\ element.ariaControls # <<>>
      hasButtonClass ==
        \E pattern \in {"btn", "button"} : HasWord(element.className, pattern)
      hasStrongInteractiveTraits ==
        \/ element.role = "button"
        \/ element.tabindex = <<"0">> /\ onclick
        \/ pointer /\ \/ element.ariaLabel # <<>> /\ onclick
                      \/ element.title # <<>> /\ onclick
      hasNestedInteractiveContent ==
        /\ element.hasSvg
        /\ onclick
        /\ pointer
        /\ \/ element.ariaLabel # <<>>
           \/ element.title # <<>>
           \/ element.role = "button"
        /\ \/ element.tabindex = <<"0">>
           \/ element.border # "none"
      isControlElement ==
        /\ element.ariaControls # <<>>
        /\ element.ariaExpanded # <<>>
        /\ pointer
        /\ (onclick \/ element.tabindex = <<"0">>)
  IN  IF element.role = "button" THEN TRUE
      ELSE IF element.tag = "button" THEN TRUE
      ELSE IF element.tag = "input"
                /\ element.type \in {"button", "submit", "reset"} THEN TRUE
      ELSE IF hasStrongAriaButton THEN TRUE
      ELSE IF hasButtonClass /\ (onclick \/ element.tabindex # <<>>) THEN TRUE
      ELSE IF hasStrongInteractiveTraits THEN TRUE
      ELSE IF hasNestedInteractiveContent THEN TRUE
      ELSE IF isControlElement THEN TRUE
      ELSE FALSE

\* processButtonElement(element, role): the description is the sequence of
\* its sentences, empty for ''
processButtonElement(element) ==
  IF ~isButtonLike(element)
    THEN [description |-> <<>>, category |-> "Generic Button"]
  ELSE
    [category |->
       IF element.typeAttr = <<"submit">> THEN "Submit Button"
       ELSE IF element.typeAttr = <<"reset">> THEN "Reset Button"
       ELSE IF element.ariaPressed # <<>> THEN "Toggle Button"
       ELSE IF element.ariaExpanded # <<>> THEN "Expandable Button"
       ELSE IF element.ariaHaspopup = <<"true">> THEN "Popup Button"
       ELSE IF element.tag = "button" THEN "HTML Button"
       ELSE IF element.tag = "input" /\ element.type = "button"
         THEN "Input Button"
       ELSE IF element.role = "button" THEN "ARIA Button"
       ELSE "Generic Button",
     description |->
       (IF element.ariaPressed = <<>> THEN <<>>
        ELSE IF element.ariaPressed = <<"true">> THEN <<"State: Pressed. ">>
        ELSE <<"State: Not pressed. ">>)
       \o (IF element.ariaExpanded = <<>> THEN <<>>
           ELSE IF element.ariaExpanded = <<"true">>
             THEN <<"State: Expanded. ">>
           ELSE <<"State: Collapsed. ">>)
       \o (IF element.ariaControls \in {<<>>, <<"">>} THEN <<>>
           ELSE <<"Controls: ", element.ariaControls[1], ". ">>)]

\* the category processInputElement derives from the type
inputCategory(inputType) ==
  IF inputType \in {"text", "email", "tel", "url", "search"} THEN "Text Input"
  ELSE IF inputType = "password" THEN "Password Input"
  ELSE IF inputType = "number" THEN "Number Input"
  ELSE IF inputType = "checkbox" THEN "Checkbox"
  ELSE IF inputType = "radio" THEN "Radio Button"
  ELSE IF inputType = "file" THEN "File Upload"
  ELSE IF inputType = "submit" THEN "Submit Button"
  ELSE IF inputType = "reset" THEN "Reset Button"
  ELSE IF inputType = "button" THEN "Generic Button"
  ELSE inputType \o " input"

\* attrs.category as the type-specific processing of getElementInfo leaves it
categoryAttr(element) ==
  IF element.tag = "input" THEN <<inputCategory(element.type)>>
  ELSE IF element.tag = "select" THEN <<"Select Dropdown">>
  ELSE IF element.tag = "textarea" THEN <<"Text Area">>
  ELSE IF processButtonElement(element).description # <<>>
    THEN <<processButtonElement(element).category>>
  ELSE <<>>

\* isElementClickable without the test for the tag a
isElementClickableNoAnchor(element) ==
  \/ "click" \in element.on
  \/ element.cursor = "pointer"
  \/ element.role = "button"
  \/ element.tabindex # <<>>
  \/ ClassIncludes(element.className, "trigger")
  \/ ClassIncludes(element.className, "clickable")
  \/ element.hasSvg
  \/ element.tag = "button"
  \/ element.role = "link"
  \/ element.role = "tab"

\* isElementClickable(element) for an element of the document
isElementClickable(element) ==
  \/ "click" \in element.on
  \/ element.cursor = "pointer"
  \/ element.role = "button"
  \/ element.tabindex # <<>>
  \/ ClassIncludes(element.className, "trigger")
  \/ ClassIncludes(element.className, "clickable")
  \/ element.hasSvg
  \/ element.tag = "button"
  \/ element.tag = "a"
  \/ element.role = "link"
  \/ element.role = "tab"

\* document.querySelector('[mmid="<mmid>"]') and Object.assign(node, attrs)
processDomNode(d, node) ==
  LET hits == {i \in 1..Len(d) : d[i].mmid = <<node.mmid[1]>>} IN
  IF hits = {} THEN node
  ELSE
    LET element == d[CHOOSE i \in hits : \A j \in hits : i <= j] IN
    IF element.attrThrows THEN node
    ELSE
    [node EXCEPT
       !.tag = <<element.tag>>,
       !.role = IF element.role # "" THEN <<element.role>> ELSE <<>>,
       !.mmid = IF Truthy(element.mmid) THEN element.mmid ELSE <<>>,
       !.category = categoryAttr(element),
       !.is_clickable = <<isClickableAttr(element)>>]

\* the element '[mmid="<mmid>"]' selects, as a set of at most one
Selected(d, node) ==
  LET hits == {i \in 1..Len(d) : d[i].mmid = <<node.mmid[1]>>} IN
  IF hits = {} THEN {} ELSE {d[CHOOSE i \in hits : \A j \in hits : i <= j]}

\* processNode with the try/catch around the whole node: a node whose
\* attributes fail is left with its children unprocessed
RECURSIVE processNodeStopsAtFailure(_, _)
processNodeStopsAtFailure(d, node) ==
  LET real == Truthy(node.mmid) /\ node.mmid[1] # <<"0">>
      n1 == IF real THEN processDomNode(d, node) ELSE node
  IN  IF real /\ \E e \in Selected(d, node) : e.attrThrows THEN node
      ELSE IF n1.children # <<>> /\ Len(n1.children[1]) > 0
        THEN [n1 EXCEPT !.children =
                <<[k \in 1..Len(n1.children[1]) |->
                     processNodeStopsAtFailure(d, n1.children[1][k])]>>]
        ELSE n1

RECURSIVE processNode(_, _)
processNode(d, node) ==
  LET n1 == IF Truthy(node.mmid) /\ node.mmid[1] # <<"0">>
              THEN processDomNode(d, node) ELSE node
  IN  IF n1.children # <<>> /\ Len(n1.children[1]) > 0
        THEN [n1 EXCEPT !.children =
                <<[k \in 1..Len(n1.children[1]) |->
                     processNode(d, n1.children[1][k])]>>]
        ELSE n1

isInputNode(node) ==
  \/ node.tag \in {<<"input">>, <<"select">>, <<"textarea">>, <<"button">>}
  \/ node.role \in
       {<<r>> : r \in {"textbox", "button", "checkbox", "combobox",
                       "listbox", "menuitem", "menuitemcheckbox",
                       "menuitemradio", "option", "radio", "searchbox",
                       "slider", "spinbutton", "switch", "tab"}}
  \/ node.is_clickable = <<TRUE>>
  \/ TruthyStr(node.tabindex)
  \/ node.aria_expanded # <<>>
  \/ node.aria_selected # <<>>
  \/ node.aria_checked # <<>>

KeepUnmarked(children) ==
  SelectSeq(children, LAMBDA child : child.marked_for_deletion_by_mm # <<TRUE>>)

\* pruneTree: <<>> is null, <<node>> the node kept
pruneTree(node, onlyInputFields) ==
  LET n1 == IF onlyInputFields /\ ~isInputNode(node)
              THEN [node EXCEPT !.marked_for_deletion_by_mm = <<TRUE>>]
              ELSE node
      n2 == IF n1.children # <<>> /\ Len(n1.children[1]) > 0
              THEN LET n3 == [n1 EXCEPT
                                !.children = <<KeepUnmarked(n1.children[1])>>]
                   IN  IF /\ Len(n3.children[1]) = 0
                          /\ onlyInputFields
                          /\ ~isInputNode(n3)
                          /\ n3.role # <<"WebArea">>
                         THEN [n3 EXCEPT
                                 !.marked_for_deletion_by_mm = <<TRUE>>]
                         ELSE n3
              ELSE n1
  IN  IF n2.marked_for_deletion_by_mm = <<TRUE>> THEN <<>> ELSE <<n2>>

RECURSIVE processNodeForOutput(_)
processNodeForOutput(node) ==
  IF node = <<>> THEN EmptyNode
  ELSE
    LET output == node[1]
        withKids ==
          IF output.children # <<>> /\ Len(output.children[1]) > 0
            THEN [output EXCEPT !.children =
                    <<[k \in 1..Len(output.children[1]) |->
                         processNodeForOutput(<<output.children[1][k]>>)]>>]
            ELSE output
    IN  [withKids EXCEPT !.marked_for_deletion_by_mm = <<>>]

\* steps (3) to (5) of getDomInfo on the tree below node
finishTree(d, node, onlyInputFields) ==
  processNodeForOutput(pruneTree(processNode(d, node), onlyInputFields))

\* the places where getDomInfo calls page.evaluate itself
Faults == {"none", "inject", "root"}

\* getDomInfo without its try/catch: the error reaches the caller
getDomInfoNoCatch(d, onlyInputFields, f) ==
  IF f = "inject" THEN [doc |-> d, tree |-> <<>>, threw |-> TRUE]
  ELSE
    LET d2 == domInfoInjectLoop(d, 1, 1) IN
    IF f = "root" THEN [doc |-> d2, tree |-> <<>>, threw |-> TRUE]
    ELSE [doc |-> d2, tree |-> <<finishTree(d2, rootNode, onlyInputFields)>>,
          threw |-> FALSE]

\* getDomInfo: every error inside the try block yields the sentinel node
getDomInfo(d, onlyInputFields, f) ==
  IF f = "inject" THEN [doc |-> d, tree |-> <<ErrorNode>>, threw |-> FALSE]
  ELSE
    LET d2 == domInfoInjectLoop(d, 1, 1) IN
    IF f = "root" THEN [doc |-> d2, tree |-> <<ErrorNode>>, threw |-> FALSE]
    ELSE [doc |-> d2, tree |-> <<finishTree(d2, rootNode, onlyInputFields)>>,
          threw |-> FALSE]

\* ------------------------------------------------------------ getDomFields
\* Texts (values, option texts, labels) are sequences of characters.
Whitespace == {" ", "\n"}

\* text.replace(/\s+/g, ' ')
RECURSIVE collapseWhitespace(_)
collapseWhitespace(text) ==
  IF text = <<>> THEN <<>>
  ELSE IF Head(text) \in Whitespace
    THEN IF Len(text) > 1 /\ text[2] \in Whitespace
           THEN collapseWhitespace(Tail(text))
           ELSE <<" ">> \o collapseWhitespace(Tail(text))
    ELSE <<Head(text)>> \o collapseWhitespace(Tail(text))

\* text.trim()
RECURSIVE trimStart(_)
trimStart(text) ==
  IF text # <<>> /\ Head(text) \in Whitespace THEN trimStart(Tail(text))
  ELSE text

RECURSIVE trimEnd(_)
trimEnd(text) ==
  IF text # <<>> /\ text[Len(text)] \in Whitespace
    THEN trimEnd(SubSeq(text, 1, Len(text) - 1))
    ELSE text

trim(text) == trimEnd(trimStart(text))

\* text.substring(0, n)
substring(text, n) == SubSeq(text, 1, IF Len(text) < n THEN Len(text) ELSE n)

\* parts.join(sep)
RECURSIVE join(_, _)
join(parts, sep) ==
  IF parts = <<>> THEN <<>>
  ELSE IF Len(parts) = 1 THEN parts[1]
  ELSE parts[1] \o sep \o join(Tail(parts), sep)

\* element.selectedOptions taken to be every option
selectedOptionsAll(element) == element.options

\* element.selectedOptions
selectedOptions(element) ==
  LET isSelected(opt) == opt.selected IN SelectSeq(element.options, isSelected)

\* Array.from(opts).map(opt => opt.text)
optionTexts(opts) == [k \in 1..Len(opts) |-> opts[k].text]

\* the first element 'label[for="<id>"]' selects, as a sequence of at most one
labelFor(d, id) ==
  LET hits == {i \in 1..Len(d) : d[i].tag = "label" /\ d[i].htmlFor = id} IN
  IF hits = {} THEN <<>> ELSE <<d[CHOOSE i \in hits : \A j \in hits : i <= j]>>

\* the field record built for one form element
fieldOf(d, element) ==
  [type |-> IF element.tag = "input"
              THEN (IF element.type # "" THEN element.type ELSE "text")
              ELSE element.tag,
   value |-> IF element.tag = "textarea"
               THEN substring(trim(collapseWhitespace(element.value)), 100)
             ELSE IF element.tag = "select"
               THEN join(optionTexts(selectedOptions(element)), <<",", " ">>)
             ELSE element.value,
   options |-> IF element.tag = "select"
                 THEN <<optionTexts(element.options)>> ELSE <<>>,
   placeholder |-> IF Truthy(element.placeholder)
                     THEN element.placeholder[1] ELSE <<>>,
   required |-> element.required,
   disabled |-> element.disabled,
   readonly |-> element.readonly,
   label |-> IF element.id # "" /\ labelFor(d, element.id) # <<>>
               THEN <<trim(labelFor(d, element.id)[1].text)>> ELSE <<>>]

\* the forEach over 'input' alone
RECURSIVE fieldsLoopInputsOnly(_, _, _)
fieldsLoopInputsOnly(d, i, dict) ==
  IF i > Len(d) THEN dict
  ELSE
    LET element == d[i] IN
    IF element.tag \notin {"input"}
      THEN fieldsLoopInputsOnly(d, i + 1, dict)
    ELSE
      IF Truthy(element.mmid)
        THEN fieldsLoopInputsOnly(d, i + 1,
               [m \in DOMAIN dict \cup {element.mmid[1]} |->
                  IF m = element.mmid[1] THEN fieldOf(d, element)
                  ELSE dict[m]])
        ELSE fieldsLoopInputsOnly(d, i + 1, dict)

RECURSIVE fieldsLoop(_, _, _)
fieldsLoop(d, i, dict) ==
  IF i > Len(d) THEN dict
  ELSE
    LET element == d[i] IN
    IF element.tag \notin {"input", "select", "textarea"}
      THEN fieldsLoop(d, i + 1, dict)
    ELSE
      IF Truthy(element.mmid)
        THEN fieldsLoop(d, i + 1,
               [m \in DOMAIN dict \cup {element.mmid[1]} |->
                  IF m = element.mmid[1] THEN fieldOf(d, element)
                  ELSE dict[m]])
        ELSE fieldsLoop(d, i + 1, dict)

EmptyDict == [m \in {} |-> fieldOf(<<>>, Base)]

\* the orchestrator, the manager and the controller before they are used
NoOrch ==
  [node |-> "START", steps |-> <<>>, currentStep |-> 0, success |-> FALSE,
   pageContent |-> 0, ran |-> <<>>, lastExec |-> <<>>, lastEval |-> "none"]

NoManager ==
  [browser |-> 0, page |-> 0, setups |-> 0, browsers |-> 0, pages |-> 0,
   closeCalled |-> FALSE, calls |-> <<>>]

NoAgent ==
  [kind |-> "none", isRunning |-> FALSE, isPaused |-> FALSE, loops |-> <<>>]

\* -------------------------------------------------------------------- Init
SeqsUpTo(S, n) == UNION {[1..k -> S] : k \in 0..n}

Page(content) ==
  LET d == <<HtmlElem, BodyElem>> \o content
  IN  [i \in 1..Len(d) |-> [d[i] EXCEPT !.eid = i]]

Init ==
  /\ doc \in {Page(content) : content \in SeqsUpTo(Kinds, MaxInit)}
  /\ lastMmid = <<>>
  /\ orch = NoOrch
  /\ manager = NoManager
  /\ agent = NoAgent
  /\ op = "load"
  /\ streak = 0
  /\ saved = <<>>
  /\ ret = <<>>
  /\ threw = FALSE
  /\ tree = <<>>
  /\ fields = <<>>
  /\ assigned = {}
  /\ newIds = <<>>
  /\ startId = -1
  /\ cleanups = 0
  /\ inserts = 0
  /\ fault = "none"
  /\ arg = <<>>
  /\ out = <<>>

\* ----------------------------------------------------------------- actions
\* injectMmidAttributes(page) of dom/utils/element.ts
InjectIdentifiers ==
  LET id0 == readLastMmid(lastMmid)
      r == injectLoop(doc, 1, id0)
  IN  /\ doc' = r.doc
      /\ lastMmid' = IF r.threw THEN lastMmid ELSE <<String(r.id)>>
      /\ ret' = IF r.threw THEN <<>> ELSE <<r.id>>
      /\ threw' = r.threw
      /\ startId' = id0
      /\ Record(doc, r.doc)
      /\ UNCHANGED <<orch, manager, agent>>
      /\ op' = "inject"
      /\ streak' = IF streak \in {1, 3} THEN 3 ELSE 1
      /\ saved' = IF streak \in {1, 3} THEN saved ELSE <<Styles(doc)>>
      /\ tree' = <<>>
      /\ fields' = <<>>
      /\ fault' = "none"
      /\ UNCHANGED <<cleanups, inserts, arg, out>>

\* cleanupMmidAttributes(page)
CleanupIdentifiers ==
  /\ cleanups < MaxCleanups
  /\ cleanups' = cleanups + 1
  /\ doc' = [i \in 1..Len(doc) |-> cleanupElement(doc[i])]
  /\ UNCHANGED <<orch, manager, agent>>
  /\ op' = "cleanup"
  /\ streak' = IF streak \in {1, 3} THEN 2 ELSE 0
  /\ saved' = IF streak \in {1, 3} THEN saved ELSE <<>>
  /\ ret' = <<>>
  /\ threw' = FALSE
  /\ tree' = <<>>
  /\ fields' = <<>>
  /\ newIds' = <<>>
  /\ fault' = "none"
  /\ UNCHANGED <<lastMmid, assigned, startId, inserts, arg, out>>

\* getDomInfo(page, onlyInputFields); f is where page.evaluate rejects
BuildTree(onlyInputFields, f) ==
  LET r == getDomInfo(doc, onlyInputFields, f)
  IN  /\ doc' = r.doc
      /\ tree' = r.tree
      /\ threw' = r.threw
      /\ fault' = f
      /\ Record(doc, r.doc)
      /\ UNCHANGED <<orch, manager, agent>>
      /\ op' = IF onlyInputFields THEN "buildTreeInputs" ELSE "buildTree"
      /\ streak' = 0
      /\ saved' = <<>>
      /\ ret' = <<>>
      /\ fields' = <<>>
      /\ UNCHANGED <<lastMmid, startId, cleanups, inserts, arg, out>>

\* getDomFields(page)
GetFields ==
  /\ fields' = <<fieldsLoop(doc, 1, EmptyDict)>>
  /\ UNCHANGED <<orch, manager, agent>>
  /\ op' = "getFields"
  /\ streak' = 0
  /\ saved' = <<>>
  /\ ret' = <<>>
  /\ threw' = FALSE
  /\ tree' = <<>>
  /\ newIds' = <<>>
  /\ fault' = "none"
  /\ UNCHANGED <<doc, lastMmid, assigned, startId, cleanups, inserts, arg, out>>

\* the page's own scripts insert a new element under <body>
InsertElement(kind, pos) ==
  /\ inserts < MaxInserts
  /\ inserts' = inserts + 1
  /\ doc' = SubSeq(doc, 1, pos - 1)
              \o <<[kind EXCEPT !.eid = Len(doc) + 1]>>
              \o SubSeq(doc, pos, Len(doc))
  /\ UNCHANGED <<orch, manager, agent>>
  /\ op' = "insert"
  /\ streak' = 0
  /\ saved' = <<>>
  /\ ret' = <<>>
  /\ threw' = FALSE
  /\ tree' = <<>>
  /\ fields' = <<>>
  /\ newIds' = <<>>
  /\ fault' = "none"
  /\ UNCHANGED <<lastMmid, assigned, startId, cleanups, arg, out>>

Next ==
  \/ InjectIdentifiers
  \/ CleanupIdentifiers
  \/ \E onlyInputFields \in BOOLEAN : BuildTree(onlyInputFields, "none")
  \/ GetFields
  \/ \E kind \in InsertKinds : \E pos \in {3, Len(doc) + 1} :
        InsertElement(kind, pos)

Spec == Init /\ [][Next]_vars

\* the same page driven through a page handle that may fail inside getDomInfo
NextFaults ==
  \/ InjectIdentifiers
  \/ \E onlyInputFields \in BOOLEAN : \E f \in Faults :
        BuildTree(onlyInputFields, f)
  \/ \E kind \in InsertKinds : \E pos \in {3, Len(doc) + 1} :
        InsertElement(kind, pos)

SpecFaults == Init /\ [][NextFaults]_vars

\* ------------------------------------------- trees given to processNode
\* The elements of the trees: an input, a decorative div, and a button on
\* which getElementInfo raises.
PlainDiv == Base
BadButton == [Base EXCEPT !.tag = "button", !.attrThrows = TRUE]
TreeKinds == {TextInput, PlainDiv, BadButton}
NoElem == [Base EXCEPT !.tag = ""]

\* Six places below the root: 1 and 4 are children of the root, 2 and 3
\* children of 1, 5 and 6 children of 4.  A layout says which element, if
\* any, is at each place.
Places == 1..6
ParentOf == <<0, 1, 1, 0, 4, 4>>
Layouts ==
  {a \in [Places -> TreeKinds \cup {NoElem}] :
     \A p \in Places :
       (a[p] # NoElem /\ ParentOf[p] # 0) => a[ParentOf[p]] # NoElem}

\* the document of a layout: the element at place p carries mmid p
TreeDoc(a) ==
  LET at(p) == IF a[p] = NoElem THEN <<>>
               ELSE <<[a[p] EXCEPT !.eid = p + 2, !.mmid = <<String(p)>>]>>
  IN  <<[HtmlElem EXCEPT !.eid = 1], [BodyElem EXCEPT !.eid = 2]>>
        \o at(1) \o at(2) \o at(3) \o at(4) \o at(5) \o at(6)

\* the DOMNode tree of a layout, before processNode: nodes carry their mmid
TreeOf(a) ==
  LET leaf(p) == IF a[p] = NoElem THEN <<>>
                 ELSE <<[NoNode EXCEPT !.mmid = <<String(p)>>]>>
      inner(p, q, r) ==
        IF a[p] = NoElem THEN <<>>
        ELSE <<[NoNode EXCEPT !.mmid = <<String(p)>>,
                              !.children = <<leaf(q) \o leaf(r)>>]>>
  IN  [rootNode EXCEPT !.children = <<inner(1, 2, 3) \o inner(4, 5, 6)>>]

InitTree ==
  /\ \E a \in Layouts : \E onlyInputFields \in BOOLEAN :
       /\ doc = TreeDoc(a)
       /\ arg = <<[node |-> TreeOf(a), onlyInputFields |-> onlyInputFields]>>
  /\ lastMmid = <<>>
  /\ orch = NoOrch
  /\ manager = NoManager
  /\ agent = NoAgent
  /\ op = "tree"
  /\ streak = 0
  /\ saved = <<>>
  /\ ret = <<>>
  /\ threw = FALSE
  /\ tree = <<>>
  /\ fields = <<>>
  /\ assigned = {}
  /\ newIds = <<>>
  /\ startId = -1
  /\ cleanups = 0
  /\ inserts = 0
  /\ fault = "none"
  /\ out = <<>>

\* getDomInfo from processNode on, applied to the tree in arg
ApplyFinishTree ==
  /\ op = "tree"
  /\ UNCHANGED <<orch, manager, agent>>
  /\ op' = "finishTree"
  /\ out' = <<[processed |-> processNode(doc, arg[1].node),
               result |-> finishTree(doc, arg[1].node,
                                     arg[1].onlyInputFields)]>>
  /\ UNCHANGED <<doc, lastMmid, streak, saved, ret, threw, tree, fields,
                 assigned, newIds, startId, cleanups, inserts, fault, arg>>

NextTree == ApplyFinishTree

SpecTree == InitTree /\ [][NextTree]_vars

\* ------------------------------------------------ pages of form fields
MaxFields == 2

Opt(text, selected) == [text |-> text, selected |-> selected]
Colours(s1, s2, s3) ==
  <<Opt(<<"R", "e", "d">>, s1), Opt(<<"T", "e", "a", "l">>, s2),
    Opt(<<"B", "l", "u", "e">>, s3)>>

\* The elements of a form page: a text input with a label, an input of type
\* hidden (never interactive, so never identified), a textarea, a select
\* with nothing, the second option, or the first and third options selected,
\* and the label.
EmailInput ==
  [Base EXCEPT !.tag = "input", !.type = "text", !.id = "email",
               !.value = <<"a", "@", "b">>, !.placeholder = <<<<"E">>>>,
               !.required = TRUE]
HiddenInput ==
  [Base EXCEPT !.tag = "input", !.type = "hidden", !.value = <<"t", "k">>]
Textarea ==
  [Base EXCEPT !.tag = "textarea", !.readonly = TRUE,
               !.value = <<" ", "h", "i", "\n", " ", "y", "o", "u", "\n">>]
SelectNone ==
  [Base EXCEPT !.tag = "select", !.options = Colours(FALSE, FALSE, FALSE)]
SelectOne ==
  [Base EXCEPT !.tag = "select", !.options = Colours(FALSE, TRUE, FALSE)]
SelectTwo ==
  [Base EXCEPT !.tag = "select", !.disabled = TRUE,
               !.options = Colours(TRUE, FALSE, TRUE)]
EmailLabel ==
  [Base EXCEPT !.tag = "label", !.htmlFor = "email",
               !.text = <<" ", "M", "a", "i", "l", " ">>]

FieldKinds ==
  {EmailInput, HiddenInput, Textarea, SelectNone, SelectOne, SelectTwo,
   EmailLabel, Div}

InitFields ==
  /\ \E content \in SeqsUpTo(FieldKinds, MaxFields) : doc = Page(content)
  /\ lastMmid = <<>>
  /\ orch = NoOrch
  /\ manager = NoManager
  /\ agent = NoAgent
  /\ op = "init"
  /\ streak = 0
  /\ saved = <<>>
  /\ ret = <<>>
  /\ threw = FALSE
  /\ tree = <<>>
  /\ fields = <<>>
  /\ assigned = {}
  /\ newIds = <<>>
  /\ startId = -1
  /\ cleanups = 0
  /\ inserts = 0
  /\ fault = "none"
  /\ arg = <<>>
  /\ out = <<>>

NextFields ==
  \/ InjectIdentifiers
  \/ CleanupIdentifiers
  \/ GetFields

SpecFields == InitFields /\ [][NextFields]_vars

\* --------------------------------------------- elements to classify
\* The values each feature the classifiers read can take.  An input's type
\* property is always a valid type; a computed cursor is always a CSS cursor
\* keyword.
ClassifyTags == {"a", "button", "select", "textarea", "div", "span"}
InputTypeValues == InteractiveInputTypes \cup {"hidden", "image"}
RoleValues ==
  {"", "WebArea", "tab", "presentation"} \cup InteractiveRoles
TabindexValues == {<<>>, <<"0">>, <<"-1">>, <<"">>}
OnValues == {{}} \cup {{event} : event \in interactiveEvents \cup {"focus"}}
CursorValues == {"auto", "text", "pointer", "grab", "grabbing"}
LookValues ==
  {<<"", FALSE>>, <<"menu-trigger", FALSE>>, <<"", TRUE>>}

ClassifyElems ==
  {[Base EXCEPT !.tag = tt[1], !.type = tt[2], !.role = role,
                !.tabindex = tabindex, !.on = on, !.cursor = cursor,
                !.className = look[1], !.hasSvg = look[2]] :
     tt \in {<<tag, "">> : tag \in ClassifyTags}
              \cup {<<"input", type>> : type \in InputTypeValues},
     role \in RoleValues, tabindex \in TabindexValues, on \in OnValues,
     cursor \in CursorValues, look \in LookValues}

InitClassify ==
  /\ \E element \in ClassifyElems : arg = <<element>>
  /\ doc = Page(<<>>)
  /\ lastMmid = <<>>
  /\ orch = NoOrch
  /\ manager = NoManager
  /\ agent = NoAgent
  /\ op = "element"
  /\ streak = 0
  /\ saved = <<>>
  /\ ret = <<>>
  /\ threw = FALSE
  /\ tree = <<>>
  /\ fields = <<>>
  /\ assigned = {}
  /\ newIds = <<>>
  /\ startId = -1
  /\ cleanups = 0
  /\ inserts = 0
  /\ fault = "none"
  /\ out = <<>>

\* the three predicates applied to the element in arg
Classify ==
  /\ op = "element"
  /\ UNCHANGED <<orch, manager, agent>>
  /\ op' = "classify"
  /\ out' = <<[interactive |-> isElementInteractive(arg[1]),
               clickable |-> isElementClickable(arg[1]),
               is_clickable |-> isClickableAttr(arg[1])]>>
  /\ UNCHANGED <<doc, lastMmid, streak, saved, ret, threw, tree, fields,
                 assigned, newIds, startId, cleanups, inserts, fault, arg>>

NextClassify == Classify

SpecClassify == InitClassify /\ [][NextClassify]_vars

\* ----------------------------------------------- elements to describe
\* The values of the features the button-likeness test reads, for elements
\* other than form controls, and one form control of each kind.
DescribeElems ==
  {[Base EXCEPT !.tag = tag, !.typeAttr = typeAttr, !.role = role,
                !.type = IF tag = "button" THEN "submit" ELSE "",
                !.ariaPressed = ariaPressed, !.ariaExpanded = ariaExpanded,
                !.ariaHaspopup = ariaHaspopup, !.ariaControls = ariaControls,
                !.className = className, !.on = on, !.tabindex = tabindex,
                !.cursor = cursor, !.ariaLabel = ariaLabel,
                !.hasSvg = hasSvg] :
     tag \in {"button", "a", "div"},
     typeAttr \in {<<>>, <<"submit">>, <<"reset">>},
     role \in {"", "button", "link"},
     ariaPressed \in {<<>>, <<"true">>, <<"false">>},
     ariaExpanded \in {<<>>, <<"true">>, <<"false">>},
     ariaHaspopup \in {<<>>, <<"true">>, <<"menu">>},
     ariaControls \in {<<>>, <<"menu">>},
     className \in {"", "btn primary"},
     on \in {{}, {"click"}},
     tabindex \in {<<>>, <<"0">>},
     cursor \in {"auto", "pointer"},
     ariaLabel \in {<<>>, <<"Go">>},
     hasSvg \in BOOLEAN}
  \cup {[Base EXCEPT !.tag = "input", !.type = type] :
          type \in InputTypeValues}
  \cup {SelectOne, Textarea}

\* the node of the element, before processDomNode
DescribeNode == [NoNode EXCEPT !.mmid = <<String(5)>>]

InitDescribe ==
  /\ \E element \in DescribeElems :
       /\ arg = <<element>>
       /\ doc = Page(<<[element EXCEPT !.mmid = <<String(5)>>]>>)
  /\ lastMmid = <<>>
  /\ orch = NoOrch
  /\ manager = NoManager
  /\ agent = NoAgent
  /\ op = "element"
  /\ streak = 0
  /\ saved = <<>>
  /\ ret = <<>>
  /\ threw = FALSE
  /\ tree = <<>>
  /\ fields = <<>>
  /\ assigned = {}
  /\ newIds = <<>>
  /\ startId = -1
  /\ cleanups = 0
  /\ inserts = 0
  /\ fault = "none"
  /\ out = <<>>

\* processDomNode on the node of the element in arg
Describe ==
  /\ op = "element"
  /\ UNCHANGED <<orch, manager, agent>>
  /\ op' = "describe"
  /\ out' = <<processDomNode(doc, DescribeNode)>>
  /\ UNCHANGED <<doc, lastMmid, streak, saved, ret, threw, tree, fields,
                 assigned, newIds, startId, cleanups, inserts, fault, arg>>

NextDescribe == Describe

SpecDescribe == InitDescribe /\ [][NextDescribe]_vars

\* ------------------------------------------------- lookup by identifier
\* the n for which a class name of the model is 'mmid-<n>', as <<text>>
MmidOfClass(className) ==
  IF className = "mmid-0" THEN <<String(0)>>
  ELSE IF className = "mmid-1" THEN <<String(1)>>
  ELSE <<>>

\* page.$(`.mmid-${mmid}`): the first element of class mmid-<mmid>, as the
\* sequence of at most its eid
queryMmidClass(d, mmid) ==
  LET hits == {i \in 1..Len(d) : MmidOfClass(d[i].className) = <<mmid>>} IN
  IF hits = {} THEN <<>>
  ELSE <<d[CHOOSE i \in hits : \A j \in hits : i <= j].eid>>

\* a page's own element of class mmid-1, not interactive
Badge == [Base EXCEPT !.tag = "span", !.className = "mmid-1"]

LookupKinds == {Button, TextInput, Div, Badge}
LookupIds == {String(n) : n \in 0..MaxInit}

InitLookup ==
  /\ \E content \in SeqsUpTo(LookupKinds, MaxInit) : doc = Page(content)
  /\ lastMmid = <<>>
  /\ orch = NoOrch
  /\ manager = NoManager
  /\ agent = NoAgent
  /\ op = "init"
  /\ streak = 0
  /\ saved = <<>>
  /\ ret = <<>>
  /\ threw = FALSE
  /\ tree = <<>>
  /\ fields = <<>>
  /\ assigned = {}
  /\ newIds = <<>>
  /\ startId = -1
  /\ cleanups = 0
  /\ inserts = 0
  /\ fault = "none"
  /\ arg = <<>>
  /\ out = <<>>

\* getElementByMmid(page, mmid)
GetElementByMmid(mmid) ==
  /\ op' = "getElementByMmid"
  /\ arg' = <<mmid>>
  /\ out' = <<[found |-> queryMmidClass(doc, mmid),
               ok |-> queryMmidClass(doc, mmid) # <<>>]>>
  /\ UNCHANGED <<doc, lastMmid, streak, saved, ret, threw, tree, fields,
                 assigned, newIds, startId, cleanups, inserts, fault,
                 orch, manager, agent>>

\* clickElement({mmid}) and typeIntoElement({mmid, text}); acts tells whether
\* the click or the typing on the handle succeeds
ActOnElement(tool, mmid, acts) ==
  /\ op' = tool
  /\ arg' = <<mmid>>
  /\ out' = <<[found |-> queryMmidClass(doc, mmid),
               ok |-> queryMmidClass(doc, mmid) # <<>> /\ acts]>>
  /\ UNCHANGED <<doc, lastMmid, streak, saved, ret, threw, tree, fields,
                 assigned, newIds, startId, cleanups, inserts, fault,
                 orch, manager, agent>>

LookupOps == {"getElementByMmid", "clickElement", "typeIntoElement"}

NextLookup ==
  \/ InjectIdentifiers
  \/ CleanupIdentifiers
  \/ \E mmid \in LookupIds : GetElementByMmid(mmid)
  \/ \E tool \in {"clickElement", "typeIntoElement"} :
       \E mmid \in LookupIds : \E acts \in BOOLEAN :
         ActOnElement(tool, mmid, acts)

SpecLookup == InitLookup /\ [][NextLookup]_vars

\* ------------------------------------------------------ the orchestrator
MaxSteps == 3
StepTexts == {"open", "click"}

\* the variables of the document and a state in which it is not in use
domVars ==
  <<doc, lastMmid, op, streak, saved, ret, threw, tree, fields, assigned,
    newIds, startId, cleanups, inserts, fault, arg, out>>

DomIdle ==
  /\ doc = Page(<<>>)
  /\ lastMmid = <<>>
  /\ op = "init"
  /\ streak = 0
  /\ saved = <<>>
  /\ ret = <<>>
  /\ threw = FALSE
  /\ tree = <<>>
  /\ fields = <<>>
  /\ assigned = {}
  /\ newIds = <<>>
  /\ startId = -1
  /\ cleanups = 0
  /\ inserts = 0
  /\ fault = "none"
  /\ arg = <<>>
  /\ out = <<>>

\* app.invoke with currentStep 0, success false, pageContent '': the edge
\* from START leads to the plan node.  steps[k] is state.steps[k - 1];
\* pageContent is k for the content step k returned, 0 for ''.  ran lists
\* the steps navigate was called for in the order of their first call,
\* lastExec how the last call for each step ended, lastEval the last
\* verdict of the critique agent.
InitOrch ==
  /\ DomIdle
  /\ orch = [NoOrch EXCEPT !.node = "plan"]
  /\ manager = NoManager
  /\ agent = NoAgent

\* state.steps?.[currentStepIndex]
HasStep(o) == o.currentStep + 1 \in 1..Len(o.steps)

\* the plan node, the planner returning plan
OrchPlan(plan) ==
  /\ orch.node = "plan"
  /\ orch' = [orch EXCEPT !.steps = plan, !.currentStep = 0,
                          !.lastExec = [k \in 1..Len(plan) |-> "none"],
                          !.node = "execute"]
  /\ UNCHANGED <<domVars, manager, agent>>

\* the plan node, generatePlan raising: app.invoke rejects
OrchPlanFails ==
  /\ orch.node = "plan"
  /\ orch' = [orch EXCEPT !.node = "failed"]
  /\ UNCHANGED <<domVars, manager, agent>>

\* the execute node; outcome is how browserAgent.navigate ended
OrchExecute(outcome) ==
  /\ orch.node = "execute"
  /\ LET k == orch.currentStep + 1 IN
     IF ~HasStep(orch)
       THEN /\ outcome = "ok"
            /\ orch' = [orch EXCEPT !.success = FALSE, !.node = "evaluate"]
       ELSE
         LET called ==
               [orch EXCEPT
                  !.ran = IF \E j \in 1..Len(@) : @[j] = k THEN @
                          ELSE Append(@, k),
                  !.lastExec[k] = outcome,
                  !.node = "evaluate"]
         IN  orch' = IF outcome = "ok"
                       THEN [called EXCEPT !.pageContent = k]
                       ELSE [called EXCEPT !.success = FALSE]
  /\ UNCHANGED <<domVars, manager, agent>>

\* the evaluate node; verdict is evaluation.success
OrchEvaluate(verdict) ==
  /\ orch.node = "evaluate"
  /\ IF ~HasStep(orch)
       THEN /\ verdict = FALSE
            /\ orch' = [orch EXCEPT !.success = FALSE, !.node = "decide"]
       ELSE orch' = [orch EXCEPT !.success = verdict,
                                 !.lastEval = IF verdict THEN "success"
                                              ELSE "failed",
                                 !.node = "decide"]
  /\ UNCHANGED <<domVars, manager, agent>>

\* the conditional edge after decide, on the state decide returned
decideEdge(o) ==
  IF ~o.success THEN "execute"
  ELSE IF o.currentStep < Len(o.steps) - 1 THEN "execute"
  ELSE "END"

\* the decide node and its conditional edge
OrchDecide ==
  /\ orch.node = "decide"
  /\ LET decided ==
           IF orch.success /\ orch.currentStep < Len(orch.steps) - 1
             THEN [orch EXCEPT !.currentStep = orch.currentStep + 1]
             ELSE orch
     IN  orch' = [decided EXCEPT !.node = decideEdge(decided)]
  /\ UNCHANGED <<domVars, manager, agent>>

NextOrch ==
  \/ \E plan \in SeqsUpTo(StepTexts, MaxSteps) : OrchPlan(plan)
  \/ OrchPlanFails
  \/ \E outcome \in {"ok", "threw"} : OrchExecute(outcome)
  \/ \E verdict \in BOOLEAN : OrchEvaluate(verdict)
  \/ OrchDecide

SpecOrch == InitOrch /\ [][NextOrch]_vars

\* every node that can run does run, and the critique agent does not reject
\* a step for ever
SpecOrchLive ==
  /\ InitOrch
  /\ [][NextOrch]_vars
  /\ WF_vars(NextOrch)
  /\ SF_vars(OrchEvaluate(TRUE))

\* -------------------------------------------------- the browser manager
MaxCallers == 2

\* One call per caller.  pc is the await the call is suspended at; got is
\* what it resolved with, a browser or a page, 0 for null.  A browser or a
\* page is named by the order of its creation; manager.setups counts the
\* setupBrowser invocations since the construction of the manager.
IdleCall == [pc |-> "idle", kind |-> "", local |-> 0, got |-> 0]

InitManager ==
  /\ DomIdle
  /\ orch = NoOrch
  /\ manager = [NoManager EXCEPT !.calls = [c \in 1..MaxCallers |-> IdleCall]]
  /\ agent = NoAgent

\* getPage, getBrowser or navigateTo up to the first await: the test of
\* ensureInitialized and, when it holds, the invocation of setupBrowser
ManagerCall(c, kind) ==
  /\ manager.calls[c].pc = "idle"
  /\ manager' =
       IF manager.browser = 0 \/ manager.page = 0
         THEN [manager EXCEPT !.setups = @ + 1,
                              !.calls[c] = [IdleCall EXCEPT !.pc = "setupBrowser",
                                                            !.kind = kind]]
         ELSE [manager EXCEPT !.calls[c] = [IdleCall EXCEPT !.pc = "action",
                                                            !.kind = kind]]
  /\ UNCHANGED <<domVars, orch, agent>>

\* setupBrowser resolves: this.browser is set and newContext is called on it
ManagerSetupDone(c) ==
  /\ manager.calls[c].pc = "setupBrowser"
  /\ manager' = [manager EXCEPT !.browsers = @ + 1,
                                !.browser = manager.browsers + 1,
                                !.calls[c].pc = "newContext",
                                !.calls[c].local = manager.browsers + 1]
  /\ UNCHANGED <<domVars, orch, agent>>

\* setupBrowser rejects: the call fails
ManagerSetupFails(c) ==
  /\ manager.calls[c].pc = "setupBrowser"
  /\ manager' = [manager EXCEPT !.calls[c].pc = "failed"]
  /\ UNCHANGED <<domVars, orch, agent>>

\* newContext resolves: newPage is called on the context
ManagerContextDone(c) ==
  /\ manager.calls[c].pc = "newContext"
  /\ manager' = [manager EXCEPT !.calls[c].pc = "newPage"]
  /\ UNCHANGED <<domVars, orch, agent>>

\* newPage resolves: this.page is set and setViewportSize is called on it
ManagerPageDone(c) ==
  /\ manager.calls[c].pc = "newPage"
  /\ manager' = [manager EXCEPT !.pages = @ + 1,
                                !.page = manager.pages + 1,
                                !.calls[c].pc = "setViewportSize"]
  /\ UNCHANGED <<domVars, orch, agent>>

\* setViewportSize resolves: ensureInitialized returns
ManagerViewportDone(c) ==
  /\ manager.calls[c].pc = "setViewportSize"
  /\ manager' = [manager EXCEPT !.calls[c].pc = "action"]
  /\ UNCHANGED <<domVars, orch, agent>>

\* action(this.browser!, this.page!) of getPage, getBrowser and navigateTo
ManagerAction(c) ==
  /\ manager.calls[c].pc = "action"
  /\ manager' =
       IF manager.calls[c].kind = "getBrowser"
         THEN [manager EXCEPT !.calls[c].pc = "done",
                              !.calls[c].got = manager.browser]
       ELSE IF manager.calls[c].kind = "getPage"
         THEN [manager EXCEPT !.calls[c].pc = "done",
                              !.calls[c].got = manager.page]
       ELSE IF manager.page = 0
         THEN [manager EXCEPT !.calls[c].pc = "failed"]
       ELSE [manager EXCEPT !.calls[c].pc = "goto",
                            !.calls[c].local = manager.page]
  /\ UNCHANGED <<domVars, orch, agent>>

\* page.goto resolves: navigateTo returns the page
ManagerGotoDone(c) ==
  /\ manager.calls[c].pc = "goto"
  /\ manager' = [manager EXCEPT !.calls[c].pc = "done",
                                !.calls[c].got = manager.calls[c].local]
  /\ UNCHANGED <<domVars, orch, agent>>

\* close() up to its await
ManagerClose(c) ==
  /\ manager.calls[c].pc = "idle"
  /\ manager' =
       IF manager.browser # 0
         THEN [manager EXCEPT !.closeCalled = TRUE,
                              !.calls[c] = [IdleCall EXCEPT !.pc = "close",
                                                            !.kind = "close"]]
         ELSE [manager EXCEPT !.closeCalled = TRUE,
                              !.calls[c] = [IdleCall EXCEPT !.pc = "done",
                                                            !.kind = "close"]]
  /\ UNCHANGED <<domVars, orch, agent>>

\* browser.close() resolves
ManagerCloseDone(c) ==
  /\ manager.calls[c].pc = "close"
  /\ manager' = [manager EXCEPT !.browser = 0, !.page = 0,
                                !.calls[c].pc = "done"]
  /\ UNCHANGED <<domVars, orch, agent>>

NextManager ==
  \E c \in 1..MaxCallers :
    \/ \E kind \in {"getPage", "getBrowser", "navigateTo"} : ManagerCall(c, kind)
    \/ ManagerSetupDone(c)
    \/ ManagerSetupFails(c)
    \/ ManagerContextDone(c)
    \/ ManagerPageDone(c)
    \/ ManagerViewportDone(c)
    \/ ManagerAction(c)
    \/ ManagerGotoDone(c)
    \/ ManagerClose(c)
    \/ ManagerCloseDone(c)

SpecManager == InitManager /\ [][NextManager]_vars

\* ------------------------------------------- the controllers of run()
MaxStarts == 2
MaxEvents == 2

\* kind is "browser" for BrowserAgent.run and "computer" for
\* ComputerAgent.run.  loops holds one record per start() call that passed
\* the isRunning test: pc is the await it is suspended at, processed the
\* events it has handled, why the way its start() ended, stopped whether
\* stop() was called while it was pending.
InitAgent ==
  /\ DomIdle
  /\ orch = NoOrch
  /\ manager = NoManager
  /\ \E kind \in {"browser", "computer"} : agent = [NoAgent EXCEPT !.kind = kind]

Pending(loop) == loop.pc \notin {"settled", "rejected"}

\* the finally block: start() resolves
finish(a, l, why) ==
  [a EXCEPT !.isRunning = FALSE, !.loops[l].pc = "settled",
            !.loops[l].why = why]

\* start(): the test of isRunning, the two flags, and the first await;
\* a call while isRunning returns at once
AgentStart ==
  /\ Len(agent.loops) < MaxStarts
  /\ agent' =
       IF agent.isRunning THEN agent
       ELSE [agent EXCEPT
               !.isRunning = TRUE, !.isPaused = FALSE,
               !.loops = Append(@, [pc |-> IF agent.kind = "computer"
                                             THEN "takeScreenshot"
                                             ELSE "stream",
                                    processed |-> 0, why |-> "",
                                    stopped |-> FALSE])]
  /\ agent' # agent
  /\ UNCHANGED <<domVars, orch, manager>>

\* ComputerAgent: takeScreenshot resolves and app.stream is called, or it
\* rejects inside the try
AgentScreenshot(l, fails) ==
  /\ l \in 1..Len(agent.loops)
  /\ agent.loops[l].pc = "takeScreenshot"
  /\ agent' = IF fails THEN finish(agent, l, "error")
              ELSE [agent EXCEPT !.loops[l].pc = "stream"]
  /\ UNCHANGED <<domVars, orch, manager>>

\* app.stream resolves: the for await loop starts
AgentStreamCreated(l) ==
  /\ l \in 1..Len(agent.loops)
  /\ agent.loops[l].pc = "stream"
  /\ agent' = [agent EXCEPT !.loops[l].pc = "next"]
  /\ UNCHANGED <<domVars, orch, manager>>

\* app.stream rejects: inside the try for ComputerAgent, before the try for
\* BrowserAgent, whose start() rejects without reaching the finally block
AgentStreamFails(l) ==
  /\ l \in 1..Len(agent.loops)
  /\ agent.loops[l].pc = "stream"
  /\ agent' = IF agent.kind = "computer" THEN finish(agent, l, "error")
              ELSE [agent EXCEPT !.loops[l].pc = "rejected",
                                 !.loops[l].why = "error"]
  /\ UNCHANGED <<domVars, orch, manager>>

\* the stream yields an event: the body of the for await loop up to its
\* next await.  this.checkPause is not a method of ComputerAgent, so the
\* call raises a TypeError that the catch block takes.
AgentEvent(l) ==
  /\ l \in 1..Len(agent.loops)
  /\ agent.loops[l].pc = "next"
  /\ IF ~agent.isRunning THEN agent' = finish(agent, l, "break")
     ELSE IF agent.isPaused
       THEN agent' = IF agent.kind = "computer"
                       THEN finish(agent, l, "pause")
                       ELSE [agent EXCEPT !.loops[l].pc = "paused"]
     ELSE /\ agent.loops[l].processed < MaxEvents
          /\ agent' = [agent EXCEPT !.loops[l].processed = @ + 1]
  /\ UNCHANGED <<domVars, orch, manager>>

\* the stream ends or raises: the loop is left through the finally block
AgentStreamEnds(l) ==
  /\ l \in 1..Len(agent.loops)
  /\ agent.loops[l].pc = "next"
  /\ agent' = finish(agent, l, "end")
  /\ UNCHANGED <<domVars, orch, manager>>

\* BrowserAgent: the timer of the pause promise fires with isPaused false,
\* the promise resolves and the rest of the body handles the event
AgentPauseOver(l) ==
  /\ l \in 1..Len(agent.loops)
  /\ agent.loops[l].pc = "paused"
  /\ ~agent.isPaused
  /\ agent' = [agent EXCEPT
                 !.loops[l].pc = "next",
                 !.loops[l].processed = IF @ < MaxEvents THEN @ + 1 ELSE @]
  /\ UNCHANGED <<domVars, orch, manager>>

\* stop(), when it changes a flag
AgentStop ==
  /\ agent' = [agent EXCEPT
                 !.isRunning = FALSE,
                 !.loops = [l \in 1..Len(@) |->
                              IF agent.isRunning /\ Pending(@[l])
                                THEN [@[l] EXCEPT !.stopped = TRUE]
                                ELSE @[l]]]
  /\ agent' # agent
  /\ UNCHANGED <<domVars, orch, manager>>

\* pause(), when it changes a flag
AgentPause ==
  /\ agent.isRunning
  /\ ~agent.isPaused
  /\ agent' = [agent EXCEPT !.isPaused = TRUE]
  /\ UNCHANGED <<domVars, orch, manager>>

\* resume(), when it changes a flag
AgentResume ==
  /\ agent.isRunning
  /\ agent.isPaused
  /\ agent' = [agent EXCEPT !.isPaused = FALSE]
  /\ UNCHANGED <<domVars, orch, manager>>

\* what a start() call does by itself, once its awaits resolve
AgentLoopStep(l) ==
  \/ \E fails \in BOOLEAN : AgentScreenshot(l, fails)
  \/ AgentStreamCreated(l)
  \/ AgentStreamFails(l)
  \/ AgentEvent(l)
  \/ AgentStreamEnds(l)
  \/ AgentPauseOver(l)

NextAgent ==
  \/ AgentStart
  \/ AgentStop
  \/ AgentPause
  \/ AgentResume
  \/ \E l \in 1..MaxStarts : AgentLoopStep(l)

SpecAgent == InitAgent /\ [][NextAgent]_vars

\* every await of a start() call settles and every timer fires; the calls
\* of the user are not forced
SpecAgentLive ==
  /\ InitAgent
  /\ [][NextAgent]_vars
  /\ \A l \in 1..MaxStarts : WF_vars(AgentLoopStep(l))

\* ------------------------------------------------------------- properties
\* an element the injector is meant to tag: not in the Ignore Configuration
\* and accepted by isElementInteractive
Eligible(element) ==
  /\ ~shouldIgnoreElement(element)
  /\ ~element.throws
  /\ isElementInteractive(element)

Tagged(d) == {i \in 1..Len(d) : d[i].mmid # <<>>}

Range(s) == {s[k] : k \in 1..Len(s)}

\* C1: at no time do two elements carry the same identifier, and no
\* identifier that was assigned to one element is ever assigned to another.
C1_UniqueAndNeverReused ==
  /\ \A i, j \in Tagged(doc) : i # j => doc[i].mmid # doc[j].mmid
  /\ \A p, q \in assigned : p[2] = q[2] => p[1] = q[1]

\* C2: a second injectIdentifiers right after a first one assigns no new
\* identifier, changes no identifier and yields the same result.
C2_SecondInjectionChangesNothing ==
  [][(op = "inject" /\ op' = "inject") =>
       /\ \A i \in 1..Len(doc) : doc'[i].mmid = doc[i].mmid
       /\ newIds' = <<>>
       /\ ret' = ret
       /\ threw' = threw]_vars

C2_Witness ==
  /\ streak = 3
  /\ ~threw
  /\ ret # <<>> /\ ret[1] >= 1
  /\ Cardinality(Tagged(doc)) >= 2

\* C3: cleanupIdentifiers leaves last-mmid alone, and in inject -> cleanup
\* -> inject every identifier the later injection assigns is greater than
\* every identifier assigned before the cleanup.
C3_NumberingContinuesAfterCleanup ==
  [][/\ op' = "cleanup" => lastMmid' = lastMmid
     /\ (streak = 2 /\ op' = "inject") =>
          \A n \in Range(newIds') : \A p \in assigned : n > Number(p[2])]_vars

\* C4: after cleanupIdentifiers has returned no element carries the
\* identifier attribute.
C4_CleanupLeavesNoIdentifier ==
  (op = "cleanup" /\ ~threw) => Tagged(doc) = {}

C4_Witness ==
  /\ op = "cleanup"
  /\ Cardinality(assigned) >= 3
  /\ \E d \in 1..Len(doc) : shouldIgnoreElement(doc[d]) /\
        \E p \in assigned : p[1] = doc[d].eid

\* C5: injectIdentifiers followed by cleanupIdentifiers gives every element
\* the inline border it had before the injection and leaves no orig-border
\* attribute.
C5_CleanupRestoresBorder ==
  streak = 2 =>
    \A i \in 1..Len(doc) :
      /\ doc[i].border = saved[1][i].border
      /\ doc[i].origBorder = <<>>

\* C6: the identifiers one injection pass assigns increase strictly in
\* document order and all exceed the counter the pass started from.
C6_PassAssignsIncreasingIds ==
  op = "inject" =>
    /\ \A k \in 1..Len(newIds) : newIds[k] > startId
    /\ \A k, l \in 1..Len(newIds) : k < l => newIds[k] < newIds[l]

C6_Witness ==
  /\ op = "inject"
  /\ Len(newIds) >= 2
  /\ startId >= 0

\* C7: after injectIdentifiers ran on a document without identifiers, the
\* elements that carry one are exactly the eligible ones; an element that
\* carried one keeps it.
C7_TagsExactlyTheEligible ==
  [][op' = "inject" =>
       /\ Tagged(doc) = {} =>
            Tagged(doc') = {i \in 1..Len(doc) : Eligible(doc[i])}
       /\ \A i \in Tagged(doc) : doc'[i].mmid = doc[i].mmid]_vars

\* C8: no element of the Ignore Configuration and no element that
\* isElementInteractive rejects ever carries an identifier.
C8_OnlyEligibleElementsTagged ==
  \A i \in Tagged(doc) :
    /\ ~shouldIgnoreElement(doc[i])
    /\ doc[i].throws \/ isElementInteractive(doc[i])

\* C9: injectIdentifiers reports -1 exactly when the document has no
\* eligible element.
C9_MinusOneIffNothingEligible ==
  (op = "inject" /\ ~threw) =>
    (ret[1] = -1 <=> ~\E i \in 1..Len(doc) : Eligible(doc[i]))

\* the mmids of the nodes below node that have no children
RECURSIVE LeafMmids(_)
LeafMmids(node) ==
  IF node.children = <<>> \/ node.children[1] = <<>> THEN {}
  ELSE UNION {IF c.children = <<>> \/ c.children[1] = <<>>
                THEN {c.mmid} ELSE LeafMmids(c) : c \in Range(node.children[1])}

\* the node getDomInfo holds for an element once processDomNode has run
NodeOf(element) == processDomNode(<<element>>, [NoNode EXCEPT !.mmid = element.mmid])

\* C10: the leaves of buildTree(onlyInputFields=false) are exactly the
\* eligible elements, those of buildTree(onlyInputFields=true) exactly the
\* input-node elements.
C10_LeavesAreTheInteractiveElements ==
  /\ op = "buildTree" =>
       LeafMmids(tree[1]) = {doc[i].mmid : i \in {j \in 1..Len(doc) : Eligible(doc[j])}}
  /\ op = "buildTreeInputs" =>
       LeafMmids(tree[1]) =
         {doc[i].mmid : i \in {j \in 1..Len(doc) : isInputNode(NodeOf(doc[j]))}}

BuildOps == {"buildTree", "buildTreeInputs"}

\* C11: in both modes buildTree returns the WebArea root, also when nothing
\* is left below it.
C11_RootAlwaysReturned ==
  (op \in BuildOps /\ fault = "none") =>
    /\ tree[1].role = <<"WebArea">>
    /\ tree[1].tag = <<"document">>

\* C13: getDomInfo never raises; when the page handle fails in it, it
\* returns the node with role WebArea and the error message as name.
C13_ErrorsBecomeSentinel ==
  op \in BuildOps =>
    /\ ~threw
    /\ tree # <<>>
    /\ fault # "none" =>
         /\ tree[1].role = <<"WebArea">>
         /\ tree[1].name = <<"Error getting DOM info">>

C13_Witness ==
  /\ op = "buildTree"
  /\ fault = "root"
  /\ tree = <<ErrorNode>>
  /\ Tagged(doc) # {}

\* C15: when classifying one element raises during injectIdentifiers, every
\* other eligible element still gets an identifier and last-mmid is written.
C15_InjectionSurvivesBadElement ==
  [][op' = "inject" =>
       /\ \A i \in 1..Len(doc) : Eligible(doc[i]) => doc'[i].mmid # <<>>
       /\ lastMmid' # <<>>]_vars

\* C16: cleanupIdentifiers on a document without identifiers changes no
\* attribute, no inline style and not last-mmid.
C16_CleanupOfCleanDocumentIsNoOp ==
  [][(op' = "cleanup" /\ Tagged(doc) = {}) =>
       /\ doc' = doc
       /\ lastMmid' = lastMmid]_vars

C16_Witness ==
  /\ op = "cleanup"
  /\ streak = 2
  /\ assigned = {}
  /\ \E i \in 1..Len(doc) : doc[i].outline # "" /\ doc[i].border # ""

\* the children of a node, none when the property is undefined
Kids(node) == IF node.children = <<>> THEN <<>> ELSE node.children[1]

RECURSIVE Flat(_)
Flat(ss) == IF ss = <<>> THEN <<>> ELSE Head(ss) \o Flat(Tail(ss))

\* the mmids of a tree in document order
RECURSIVE Preorder(_)
Preorder(node) ==
  <<node.mmid>> \o Flat([k \in 1..Len(Kids(node)) |-> Preorder(Kids(node)[k])])

\* the nodes of a tree
RECURSIVE NodesOf(_)
NodesOf(node) ==
  {node} \cup UNION {NodesOf(Kids(node)[k]) : k \in 1..Len(Kids(node))}

\* a node or one of its descendants is an input node
HasInput(node) == \E n \in NodesOf(node) : isInputNode(n)

\* the mmids, in document order, of the nodes that have an input node in
\* their subtree
RECURSIVE InputSurvivors(_)
InputSurvivors(node) ==
  IF ~HasInput(node) THEN <<>>
  ELSE <<node.mmid>> \o
       Flat([k \in 1..Len(Kids(node)) |-> InputSurvivors(Kids(node)[k])])

ResultIds(node) == IF node = EmptyNode THEN <<>> ELSE Preorder(node)

FormTags == {"input", "select", "textarea"}

\* the positions of the form elements that carry an identifier
IdentifiedFields ==
  {i \in 1..Len(doc) : doc[i].tag \in FormTags /\ Truthy(doc[i].mmid)}

RECURSIVE TextsWhere(_, _)
TextsWhere(opts, wanted) ==
  IF opts = <<>> THEN <<>>
  ELSE (IF Head(opts).selected \in wanted THEN <<Head(opts).text>> ELSE <<>>)
         \o TextsWhere(Tail(opts), wanted)

RECURSIVE CommaJoined(_)
CommaJoined(texts) ==
  IF texts = <<>> THEN <<>>
  ELSE Head(texts) \o (IF Len(texts) > 1 THEN <<",", " ">> ELSE <<>>)
         \o CommaJoined(Tail(texts))

\* C18: the record of an identified select has the comma-joined texts of
\* exactly its selected options as value and the texts of all its options,
\* in DOM order, as options.
C18_SelectValueAndOptions ==
  op = "getFields" =>
    \A i \in 1..Len(doc) :
      (doc[i].tag = "select" /\ Truthy(doc[i].mmid)
         /\ \A j \in 1..Len(doc) : doc[j].mmid = doc[i].mmid => j = i) =>
        /\ doc[i].mmid[1] \in DOMAIN fields[1]
        /\ fields[1][doc[i].mmid[1]].value =
             CommaJoined(TextsWhere(doc[i].options, {TRUE}))
        /\ fields[1][doc[i].mmid[1]].options =
             <<TextsWhere(doc[i].options, BOOLEAN)>>

C18_Witness ==
  /\ op = "getFields"
  /\ \E m \in DOMAIN fields[1] :
       /\ fields[1][m].type = "select"
       /\ fields[1][m].value = <<"T", "e", "a", "l">>
       /\ fields[1][m].options =
            << <<<<"R", "e", "d">>, <<"T", "e", "a", "l">>,
                 <<"B", "l", "u", "e">>>> >>
  /\ \E m \in DOMAIN fields[1] :
       fields[1][m].value =
         <<"R", "e", "d", ",", " ", "B", "l", "u", "e">>

ClickReason(e) ==
  \/ e.tag \in {"a", "button"}
  \/ e.role \in {"button", "link"}
  \/ e.tabindex \notin {<<>>, <<"-1">>}
  \/ "click" \in e.on
  \/ e.cursor = "pointer"

\* what only isClickable looks at
ClickOnlyReason(e) ==
  \/ e.role = "tab"
  \/ e.tabindex = <<"-1">>
  \/ e.className # ""
  \/ e.hasSvg

ButtonCategories ==
  {"Submit Button", "Reset Button", "Toggle Button", "Expandable Button",
   "Popup Button", "HTML Button", "Input Button", "ARIA Button"}

\* a <button> without type attribute and without ARIA state
PlainButton(e) ==
  /\ e.tag = "button" /\ e.typeAttr = <<>>
  /\ e.ariaPressed = <<>> /\ e.ariaExpanded = <<>> /\ e.ariaHaspopup = <<>>

\* C21: a button-like element other than input, select and textarea gets one
\* of the eight button categories, a plain <button> the category HTML Button.
C21_ButtonLikeGetsButtonCategory ==
  (op = "describe" /\ arg[1].tag \notin FormTags /\ isButtonLike(arg[1])) =>
    /\ \E c \in ButtonCategories : out[1].category = <<c>>
    /\ PlainButton(arg[1]) => out[1].category = <<"HTML Button">>

\* C22: at END every step of the plan was executed, in plan order, and the
\* last evaluation was a success.
C22_EndMeansEveryStepExecuted ==
  orch.node = "END" =>
    /\ orch.ran = [k \in 1..Len(orch.steps) |-> k]
    /\ orch.lastEval = "success"

\* C27: decide moves past a step, to the next one or to END, only when the
\* last execution of that step ended without error.
C27_AdvanceOnlyAfterCleanExecution ==
  [][(orch.node = "decide"
       /\ (orch'.currentStep > orch.currentStep \/ orch'.node = "END"))
      => (HasStep(orch) /\ orch.lastExec[orch.currentStep + 1] = "ok")]_vars

\* C28: the workflow reaches END for every plan the planner returns, and a
\* step evaluated as failed is executed again at the same index.
C28_WorkflowReachesEnd ==
  /\ <>(orch.node \in {"END", "failed"})
  /\ [][(orch.node = "decide" /\ ~orch.success)
         => (orch'.node = "execute"
               /\ orch'.currentStep = orch.currentStep)]_vars

\* the calls that have returned a page
PageCalls ==
  {c \in DOMAIN manager.calls :
     manager.calls[c].pc = "done"
       /\ manager.calls[c].kind \in {"getPage", "navigateTo"}}

\* C23: until close() is called, setupBrowser is invoked at most once and
\* all callers receive the same page.
C23_OneBrowserOnePage ==
  ~manager.closeCalled =>
    /\ manager.setups <= 1
    /\ \A c1, c2 \in PageCalls : manager.calls[c1].got = manager.calls[c2].got

\* C25: after an injection the Attribute Extractor runs for the node of
\* every identified element, and no identifier ever assigned is the root's.
C25_ExtractorRunsForEveryIdentifier ==
  /\ \A p \in assigned : p[2] # String(0)
  /\ op = "inject" =>
       \A i \in 1..Len(doc) :
         Truthy(doc[i].mmid) =>
           processNode(doc, [NoNode EXCEPT !.mmid = <<doc[i].mmid[1]>>]).tag
             # <<>>

\* C26: right after an injection, looking up the identifier an element
\* carries finds that element.
C26_IdentifierResolvesToItsElement ==
  (op \in LookupOps /\ streak \in {1, 3}) =>
    \A i \in 1..Len(doc) :
      (Truthy(doc[i].mmid) /\ doc[i].mmid[1] = arg[1]) =>
        out[1].found = <<doc[i].eid>>

\* C24: on a ComputerAgent controller no start() call ends because the task
\* was paused.
C24_PauseNeverEndsTheTask ==
  agent.kind = "computer" =>
    \A l \in 1..Len(agent.loops) : agent.loops[l].why # "pause"

Consuming(loop) == loop.pc \in {"next", "paused"}

\* C29: on a BrowserAgent controller no stream is started or consumed while
\* the loop of an earlier start() call still consumes its stream.
C29_OneStreamAtATime ==
  agent.kind = "browser" =>
    \A l1, l2 \in 1..Len(agent.loops) :
      (l1 < l2 /\ Consuming(agent.loops[l1])) => ~Pending(agent.loops[l2])

StoppedLoop(l) ==
  agent.kind = "browser" /\ l \in 1..Len(agent.loops) /\ agent.loops[l].stopped

SettledLoop(l) ==
  /\ l \in 1..Len(agent.loops)
  /\ ~Pending(agent.loops[l])
  /\ ~agent.isRunning

\* C30: on a BrowserAgent controller a start() call that was pending when
\* stop() was called settles with isRunning false and handles no further
\* event.
C30_StopSettlesStart ==
  /\ \A l \in 1..MaxStarts :
       [](StoppedLoop(l) => <>SettledLoop(l))
  /\ [][\A l \in 1..MaxStarts :
          StoppedLoop(l) =>
            agent'.loops[l].processed = agent.loops[l].processed]_vars

====
